---- MODULE Spec2Model ----
(***************************************************************************)
(* rtp-live-monitor.py: the capture loop of main(), its frame decoding,    *)
(* the RTP heuristic parse_rtp, the rx/tx counters with their per-second   *)
(* sampling, and the quit-key poll.                                        *)
(*                                                                         *)
(* A frame is a sequence of bytes (0..255).  Time is counted in whole      *)
(* seconds; the program reads it with time.time().  Time passes and the    *)
(* user types only while the program is suspended: in sock.recvfrom and in *)
(* stdscr.getkey (which waits up to 200 ms).                               *)
(***************************************************************************)
EXTENDS Integers, Sequences, FiniteSets, TLC

VARIABLES
    pc,         \* the position of the program
    iface,      \* the interface name returned by the picker
    host_ips,   \* main: host_ips, a list of dotted-quad addresses
    sock,       \* the raw socket: "none", "open", "closed"
    frame,      \* main: frame, the bytes of the frame being processed
    last_read,  \* how the most recent recvfrom ended
    stats,      \* main: stats = {rx, tx, last_rx, last_tx}
    last_time,  \* main: last_time
    clock,      \* the value time.time() returns now
    screen,     \* what the last refresh put on the screen
    keybuf,     \* keys typed and not yet read by getkey
    key,        \* main: key, the value getkey returned
    rec_rx,     \* history: rx increments since the last rendered snapshot
    rec_tx,     \* history: tx increments since the last rendered snapshot
    sum_rx,     \* history: the sum of the rx deltas rendered so far
    sum_tx,     \* history: the sum of the tx deltas rendered so far
    tick_at,    \* history: << the time of the last rendered snapshot >>, if any
    qualified   \* history: the frames received that qualify for counting

vars == <<pc, iface, host_ips, sock, frame, last_read, stats, last_time,
          clock, screen, keybuf, key, rec_rx, rec_tx, sum_rx, sum_tx, tick_at,
          qualified>>

hist == <<rec_rx, rec_tx, sum_rx, sum_tx, tick_at, qualified>>

----------------------------------------------------------------------------
(* Bounds of the model. *)

MaxRx == 3
MaxTx == 2
MaxTime == 4
ScenarioRx == 5
ScenarioTx == 3
DecodeMax == 1

----------------------------------------------------------------------------
(* Constants of the program. *)

RTP_HEADER_LEN == 12
ETH_IPV4 == 2048
PROTO_UDP == 17
PORT_LO == 10000
PORT_HI == 65000
Interval == 1
BAR_MAX == 50

None == "None"
NoKey == "curses.error"

Min(a, b) == IF a < b THEN a ELSE b

----------------------------------------------------------------------------
(* Bytes: slicing and struct.unpack in network byte order. *)

\* Python's s[a:b] for 0 <= a <= b: the bytes that exist in that window.
Slice(s, a, b) == SubSeq(s, a + 1, Min(b, Len(s)))

\* Python's s[a:]
SliceFrom(s, a) == SubSeq(s, a + 1, Len(s))

\* struct.unpack raises struct.error unless the buffer has exactly the size
\* of the format.
UnpackOK(b, size) == Len(b) = size

U16(b, i) == b[i] * 256 + b[i + 1]

U32(b, i) == ((b[i] * 256 + b[i + 1]) * 256 + b[i + 2]) * 256 + b[i + 3]

\* struct.pack("!I", n): the four bytes of n, most significant first.
PackU32(n) == << n \div 16777216, (n \div 65536) % 256, (n \div 256) % 256, n % 256 >>

\* socket.inet_ntoa: the dotted quad of four bytes, kept as its four numbers.
inet_ntoa(b) == << b[1], b[2], b[3], b[4] >>

----------------------------------------------------------------------------
(* parse_rtp *)

\* A slip: only the top bit of the first byte tested.
parse_rtp_TopBit(packet) ==
    IF Len(packet) < RTP_HEADER_LEN
    THEN FALSE
    ELSE (packet[1] \div 128) = 1

\* version = packet[0] >> 6; return version == 2
parse_rtp(packet) ==
    IF Len(packet) < RTP_HEADER_LEN
    THEN FALSE
    ELSE (packet[1] \div 64) = 2

----------------------------------------------------------------------------
(* The decoding steps of main(), as functions of the frame. *)

eth_bytes(f) == Slice(f, 12, 14)
eth_type(f) == U16(eth_bytes(f), 1)

ip_header(f) == Slice(f, 14, 34)
ver_ihl(f) == ip_header(f)[1]
proto(f) == ip_header(f)[10]
\* A slip: the source address taken for the destination.
dst_FromSrc(f) == U32(ip_header(f), 13)

dst(f) == U32(ip_header(f), 17)

ihl(f) == (ver_ihl(f) % 16) * 4
udp_offset(f) == 14 + ihl(f)
dst_ip(f) == inet_ntoa(PackU32(dst(f)))

udp_header(f) == Slice(f, udp_offset(f), udp_offset(f) + 8)
src_port(f) == U16(udp_header(f), 1)
dst_port(f) == U16(udp_header(f), 3)

\* A slip: the ends of the window left out.
InPortRange_Strict(f) ==
    \/ (PORT_LO < src_port(f) /\ src_port(f) < PORT_HI)
    \/ (PORT_LO < dst_port(f) /\ dst_port(f) < PORT_HI)

InPortRange(f) ==
    \/ (PORT_LO <= src_port(f) /\ src_port(f) <= PORT_HI)
    \/ (PORT_LO <= dst_port(f) /\ dst_port(f) <= PORT_HI)

rtp_data(f) == SliceFrom(f, udp_offset(f) + 8)

InList(x, l) == \E i \in 1..Len(l) : l[i] = x

\* What happens to a frame between line 74 and line 111.
Outcome(f, hosts) ==
    IF ~UnpackOK(eth_bytes(f), 2) THEN "StructError"
    ELSE IF eth_type(f) # ETH_IPV4 THEN "NotIPv4"
    ELSE IF ~UnpackOK(ip_header(f), 20) THEN "IpTruncated"
    ELSE IF proto(f) # PROTO_UDP THEN "NotUDP"
    ELSE IF ~UnpackOK(udp_header(f), 8) THEN "UdpTruncated"
    ELSE IF ~InPortRange(f) THEN "OutsidePorts"
    ELSE IF ~parse_rtp(rtp_data(f)) THEN "NotRTP"
    ELSE IF InList(dst_ip(f), hosts) THEN "Inbound"
    ELSE "Outbound"

----------------------------------------------------------------------------
(* The frames the capture source delivers in this model. *)

HostAddr == << 10, 0, 0, 5 >>
SecondAddr == << 10, 0, 0, 6 >>
OtherAddr == << 10, 0, 0, 9 >>
ThirdAddr == << 10, 0, 0, 7 >>

Zeros(n) == [i \in 1..n |-> 0]
Hi(n) == n \div 256
Lo(n) == n % 256

Payload(first, n) == [i \in 1..n |-> IF i = 1 THEN first ELSE 0]

\* An Ethernet frame holding an IPv4 header with 4*(vi % 16) - 20 bytes of
\* options (none when that is not positive), a UDP header and a payload.
MkFrame(et, vi, pr, da, sp, dp, payload) ==
    Zeros(12) \o << Hi(et), Lo(et) >>
    \o << vi, 0, 0, 0, 0, 0, 0, 0, 64, pr, 0, 0 >> \o OtherAddr \o da
    \o Zeros(IF (vi % 16) > 5 THEN 4 * ((vi % 16) - 5) ELSE 0)
    \o << Hi(sp), Lo(sp), Hi(dp), Lo(dp), 0, 0, 0, 0 >>
    \o payload

\* The same with the source address given.
MkFrameSrc(et, vi, pr, sa, da, sp, dp, payload) ==
    Zeros(12) \o << Hi(et), Lo(et) >>
    \o << vi, 0, 0, 0, 0, 0, 0, 0, 64, pr, 0, 0 >> \o sa \o da
    \o Zeros(IF (vi % 16) > 5 THEN 4 * ((vi % 16) - 5) ELSE 0)
    \o << Hi(sp), Lo(sp), Hi(dp), Lo(dp), 0, 0, 0, 0 >>
    \o payload

Rtp(da) == MkFrame(ETH_IPV4, 69, PROTO_UDP, da, 20000, 20002, Payload(128, 12))

Trunc(f, n) == SubSeq(f, 1, n)

Frames ==
    { Rtp(HostAddr), Rtp(OtherAddr) }
    \cup { Trunc(Rtp(HostAddr), n) : n \in {0, 1, 13, 14, 33, 34, 41} }
    \cup { MkFrame(et, 69, PROTO_UDP, HostAddr, 20000, 20002, Payload(128, 12)) :
             et \in {2054, 34525} }
    \cup { MkFrame(ETH_IPV4, 69, pr, HostAddr, 20000, 20002, Payload(128, 12)) :
             pr \in {1, 6} }
    \cup { MkFrame(ETH_IPV4, 70, PROTO_UDP, HostAddr, 20000, 20002, Payload(128, 12)),
           Trunc(MkFrame(ETH_IPV4, 70, PROTO_UDP, HostAddr, 20000, 20002, Payload(128, 12)), 45),
           MkFrame(ETH_IPV4, 64, PROTO_UDP, HostAddr, 20000, 20002, Payload(128, 12)) }
    \cup { MkFrame(ETH_IPV4, 69, PROTO_UDP, HostAddr, 9999, 65001, Payload(128, 12)),
           MkFrame(ETH_IPV4, 69, PROTO_UDP, HostAddr, 65000, 9999, Payload(64, 12)),
           MkFrame(ETH_IPV4, 69, PROTO_UDP, HostAddr, 9999, 10000, Payload(128, 11)) }

HostSets == { << >>, << HostAddr >> }

Interfaces == { "eth0" }

Keys == { "q", "Q", "x" }

\* A slip: the key compared as typed.
lower_Identity(k) == k

\* str.lower() on the keys of the model.
lower(k) == IF k = "Q" THEN "q" ELSE IF k = "X" THEN "x" ELSE k

----------------------------------------------------------------------------
(* The counters and the dashboard. *)

\* A slip: the record also moves the baseline of the next delta.
RecordInbound_AndMark(s) == [s EXCEPT !.rx = s.rx + 1, !.last_rx = s.rx + 1]

\* stats["rx"] += 1
RecordInbound(s) == [s EXCEPT !.rx = s.rx + 1]

\* A slip: an outbound packet counted in both directions.
RecordOutbound_Both(s) == [s EXCEPT !.tx = s.tx + 1, !.rx = s.rx + 1]

\* stats["tx"] += 1
RecordOutbound(s) == [s EXCEPT !.tx = s.tx + 1]

\* A slip: the tick taken as soon as one interval has passed.
TickDue_AtLeast(now, last) == now - last >= Interval

\* now - last_time > 1
TickDue(now, last) == now - last > Interval

\* A slip: the cumulative count shown as the delta.
rx_diff_Cumulative(s) == s.rx

rx_diff(s) == s.rx - s.last_rx
tx_diff(s) == s.tx - s.last_tx

\* A slip: the two assignments of lines 118-119 left out.
StatsAfterTick_Stale(s) == s

\* A slip: the two assignments of lines 118-119 with rx and tx exchanged.
StatsAfterTick_Swapped(s) == [s EXCEPT !.last_rx = s.tx, !.last_tx = s.rx]

\* stats["last_rx"] = stats["rx"]; stats["last_tx"] = stats["tx"]
StatsAfterTick(s) == [s EXCEPT !.last_rx = s.rx, !.last_tx = s.tx]

\* "#" * n: the empty string when n <= 0.
Bar(n) == [i \in 1..n |-> "#"]

\* A slip: a tie shown as inbound.
direction_TieInbound(rxd, txd) == IF rxd >= txd THEN "<--" ELSE "-->"

\* direction = "<--" if rx_diff > tx_diff else "-->"
direction(rxd, txd) == IF rxd > txd THEN "<--" ELSE "-->"

\* A slip: the bars drawn without the limit of 50.
Render_Unclamped(name, s, rxd, txd) ==
    [ title |-> name, rx |-> s.rx, tx |-> s.tx, rx_diff |-> rxd, tx_diff |-> txd,
      rx_bar |-> Bar(rxd), tx_bar |-> Bar(txd),
      direction |-> direction(rxd, txd) ]

\* What lines 122-135 put on the screen.
Render(name, s, rxd, txd) ==
    [ title |-> name, rx |-> s.rx, tx |-> s.tx, rx_diff |-> rxd, tx_diff |-> txd,
      rx_bar |-> Bar(Min(rxd, BAR_MAX)), tx_bar |-> Bar(Min(txd, BAR_MAX)),
      direction |-> direction(rxd, txd) ]

Blank == [ title |-> None ]

----------------------------------------------------------------------------
(* The state after the interpreter has started. *)

Init ==
    /\ pc = "select"
    /\ iface = None
    /\ host_ips = << >>
    /\ sock = "none"
    /\ frame = << >>
    /\ last_read = "none"
    /\ stats = [rx |-> 0, tx |-> 0, last_rx |-> 0, last_tx |-> 0]
    /\ last_time = 0
    /\ clock = 0
    /\ screen = Blank
    /\ keybuf = << >>
    /\ key = NoKey
    /\ rec_rx = 0
    /\ rec_tx = 0
    /\ sum_rx = 0
    /\ sum_tx = 0
    /\ tick_at = << >>
    /\ qualified = 0

Running == { "recv", "decode", "sample", "getkey", "quit" }

----------------------------------------------------------------------------
(* wrapped(): the picker, and main() up to the loop. *)

\* select_interface_curses returns None: main is never called.
SelectNone ==
    /\ pc = "select"
    /\ pc' = "exited"
    /\ UNCHANGED <<iface, host_ips, sock, frame, last_read, stats, last_time,
                   clock, screen, keybuf, key, hist>>

SelectIface ==
    /\ pc = "select"
    /\ \E i \in Interfaces : iface' = i
    /\ pc' = "resolve"
    /\ UNCHANGED <<host_ips, sock, frame, last_read, stats, last_time,
                   clock, screen, keybuf, key, hist>>

\* host_ips = [addr['addr'] for addr in addrs]: one of the lists HS.
ResolveTo(HS) ==
    /\ pc = "resolve"
    /\ \E h \in HS : host_ips' = h
    /\ pc' = "socket"
    /\ UNCHANGED <<iface, sock, frame, last_read, stats, last_time,
                   clock, screen, keybuf, key, hist>>

ResolveOK == ResolveTo(HostSets)

\* netifaces.ifaddresses raises: the exception leaves main.
ResolveFail ==
    /\ pc = "resolve"
    /\ pc' = "aborted"
    /\ UNCHANGED <<iface, host_ips, sock, frame, last_read, stats, last_time,
                   clock, screen, keybuf, key, hist>>

SocketOK ==
    /\ pc = "socket"
    /\ sock' = "open"
    /\ pc' = "bind"
    /\ UNCHANGED <<iface, host_ips, frame, last_read, stats, last_time,
                   clock, screen, keybuf, key, hist>>

\* A slip: the failure of socket.socket swallowed, main going on.
SocketFail_Ignored ==
    /\ pc = "socket"
    /\ pc' = "bind"
    /\ UNCHANGED <<iface, host_ips, sock, frame, last_read, stats, last_time,
                   clock, screen, keybuf, key, hist>>

\* socket.socket raises (no permission): the exception leaves main.
SocketFail ==
    /\ pc = "socket"
    /\ pc' = "aborted"
    /\ UNCHANGED <<iface, host_ips, sock, frame, last_read, stats, last_time,
                   clock, screen, keybuf, key, hist>>

BindOK ==
    /\ pc = "bind"
    /\ pc' = "init"
    /\ UNCHANGED <<iface, host_ips, sock, frame, last_read, stats, last_time,
                   clock, screen, keybuf, key, hist>>

\* sock.bind raises: the exception leaves main, nothing closes the socket.
BindFail ==
    /\ pc = "bind"
    /\ pc' = "aborted"
    /\ UNCHANGED <<iface, host_ips, sock, frame, last_read, stats, last_time,
                   clock, screen, keybuf, key, hist>>

InitStats ==
    /\ pc = "init"
    /\ stats' = [rx |-> 0, tx |-> 0, last_rx |-> 0, last_tx |-> 0]
    /\ last_time' = clock
    /\ pc' = "recv"
    /\ UNCHANGED <<iface, host_ips, sock, frame, last_read,
                   clock, screen, keybuf, key, hist>>

----------------------------------------------------------------------------
(* The loop: the frame read. *)

\* The counter a frame would increment stays within the bounds given.
Fits(f, capRx, capTx) ==
    /\ Outcome(f, host_ips) = "Inbound" => stats.rx < capRx
    /\ Outcome(f, host_ips) = "Outbound" => stats.tx < capTx

\* Whether a frame, read byte by byte, is an IPv4 frame with a whole IPv4
\* header that carries UDP with a whole UDP header, has a port within
\* 10000..65000, and a payload of 12 bytes or more whose first byte starts
\* with the bits 10.
Qualifies(f) ==
    /\ Len(f) >= 34
    /\ f[13] = 8 /\ f[14] = 0
    /\ f[24] = 17
    /\ LET o == 14 + 4 * (f[15] % 16)
       IN /\ Len(f) >= o + 8 + 12
          /\ \/ f[o + 1] * 256 + f[o + 2] \in 10000..65000
             \/ f[o + 3] * 256 + f[o + 4] \in 10000..65000
          /\ f[o + 9] \in 128..191

\* frame, addr = sock.recvfrom(65535) returns one of the frames FS.
RecvFrom(FS, capRx, capTx) ==
    /\ pc = "recv"
    /\ \E f \in FS :
          /\ Fits(f, capRx, capTx)
          /\ frame' = f
          /\ qualified' = qualified + (IF Qualifies(f) THEN 1 ELSE 0)
    /\ last_read' = "frame"
    /\ pc' = "decode"
    /\ UNCHANGED <<iface, host_ips, sock, stats, last_time,
                   clock, screen, keybuf, key, rec_rx, rec_tx, sum_rx, sum_tx,
                   tick_at>>

RecvFrame == RecvFrom(Frames, MaxRx, MaxTx)

\* except BlockingIOError: continue
RecvTimeout ==
    /\ pc = "recv"
    /\ last_read' = "timeout"
    /\ pc' = "recv"
    /\ UNCHANGED <<iface, host_ips, sock, frame, stats, last_time,
                   clock, screen, keybuf, key, hist>>

\* A slip: the read error not caught, so that it leaves main.
RecvError_Fatal ==
    /\ pc = "recv"
    /\ last_read' = "error"
    /\ pc' = "aborted"
    /\ UNCHANGED <<iface, host_ips, sock, frame, stats, last_time,
                   clock, screen, keybuf, key, hist>>

\* except Exception: continue
RecvError ==
    /\ pc = "recv"
    /\ last_read' = "error"
    /\ pc' = "recv"
    /\ UNCHANGED <<iface, host_ips, sock, frame, stats, last_time,
                   clock, screen, keybuf, key, hist>>

\* KeyboardInterrupt is no Exception: a signal during the read leaves main.
RecvInterrupt ==
    /\ pc = "recv"
    /\ last_read' = "interrupt"
    /\ pc' = "aborted"
    /\ UNCHANGED <<iface, host_ips, sock, frame, stats, last_time,
                   clock, screen, keybuf, key, hist>>

----------------------------------------------------------------------------
(* The loop: decoding, lines 73-111.  The frame is dead once it is decoded. *)

\* struct.unpack("!H", frame[12:14]) is outside any try: struct.error
\* leaves main.
EthStructError ==
    /\ pc = "decode"
    /\ Outcome(frame, host_ips) = "StructError"
    /\ pc' = "aborted"
    /\ frame' = << >>
    /\ UNCHANGED <<iface, host_ips, sock, last_read, stats, last_time,
                   clock, screen, keybuf, key, hist>>

\* if eth_type != 0x0800: continue
SkipNotIPv4 ==
    /\ pc = "decode"
    /\ Outcome(frame, host_ips) = "NotIPv4"
    /\ pc' = "recv"
    /\ frame' = << >>
    /\ UNCHANGED <<iface, host_ips, sock, last_read, stats, last_time,
                   clock, screen, keybuf, key, hist>>

\* struct.error unpacking frame[14:34], caught: continue
SkipIpTruncated ==
    /\ pc = "decode"
    /\ Outcome(frame, host_ips) = "IpTruncated"
    /\ pc' = "recv"
    /\ frame' = << >>
    /\ UNCHANGED <<iface, host_ips, sock, last_read, stats, last_time,
                   clock, screen, keybuf, key, hist>>

\* A slip: the continue of line 86 missing, so that the frame goes on.
SkipNotUDP_FallsThrough ==
    /\ pc = "decode"
    /\ Outcome(frame, host_ips) = "NotUDP"
    /\ stats' = RecordOutbound(stats)
    /\ rec_tx' = rec_tx + 1
    /\ pc' = "sample"
    /\ frame' = << >>
    /\ UNCHANGED <<iface, host_ips, sock, last_read, last_time,
                   clock, screen, keybuf, key, rec_rx, sum_rx, sum_tx, tick_at,
                   qualified>>

\* if proto != 17: continue
SkipNotUDP ==
    /\ pc = "decode"
    /\ Outcome(frame, host_ips) = "NotUDP"
    /\ pc' = "recv"
    /\ frame' = << >>
    /\ UNCHANGED <<iface, host_ips, sock, last_read, stats, last_time,
                   clock, screen, keybuf, key, hist>>

\* struct.error unpacking the UDP header, caught: continue
SkipUdpTruncated ==
    /\ pc = "decode"
    /\ Outcome(frame, host_ips) = "UdpTruncated"
    /\ pc' = "recv"
    /\ frame' = << >>
    /\ UNCHANGED <<iface, host_ips, sock, last_read, stats, last_time,
                   clock, screen, keybuf, key, hist>>

\* neither port in 10000..65000: continue
SkipOutsidePorts ==
    /\ pc = "decode"
    /\ Outcome(frame, host_ips) = "OutsidePorts"
    /\ pc' = "recv"
    /\ frame' = << >>
    /\ UNCHANGED <<iface, host_ips, sock, last_read, stats, last_time,
                   clock, screen, keybuf, key, hist>>

\* parse_rtp is false: nothing is counted, the loop body goes on.
NotRtp ==
    /\ pc = "decode"
    /\ Outcome(frame, host_ips) = "NotRTP"
    /\ pc' = "sample"
    /\ frame' = << >>
    /\ UNCHANGED <<iface, host_ips, sock, last_read, stats, last_time,
                   clock, screen, keybuf, key, hist>>

CountInbound ==
    /\ pc = "decode"
    /\ Outcome(frame, host_ips) = "Inbound"
    /\ stats' = RecordInbound(stats)
    /\ rec_rx' = rec_rx + 1
    /\ pc' = "sample"
    /\ frame' = << >>
    /\ UNCHANGED <<iface, host_ips, sock, last_read, last_time,
                   clock, screen, keybuf, key, rec_tx, sum_rx, sum_tx, tick_at,
                   qualified>>

CountOutbound ==
    /\ pc = "decode"
    /\ Outcome(frame, host_ips) = "Outbound"
    /\ stats' = RecordOutbound(stats)
    /\ rec_tx' = rec_tx + 1
    /\ pc' = "sample"
    /\ frame' = << >>
    /\ UNCHANGED <<iface, host_ips, sock, last_read, last_time,
                   clock, screen, keybuf, key, rec_rx, sum_rx, sum_tx, tick_at,
                   qualified>>

----------------------------------------------------------------------------
(* The loop: the dashboard, lines 113-135. *)

SampleTick ==
    /\ pc = "sample"
    /\ TickDue(clock, last_time)
    /\ stats' = StatsAfterTick(stats)
    /\ last_time' = clock
    /\ screen' = Render(iface, stats, rx_diff(stats), tx_diff(stats))
    /\ tick_at' = << clock >>
    /\ sum_rx' = sum_rx + rx_diff(stats)
    /\ sum_tx' = sum_tx + tx_diff(stats)
    /\ rec_rx' = 0
    /\ rec_tx' = 0
    /\ pc' = "getkey"
    /\ UNCHANGED <<iface, host_ips, sock, frame, last_read, clock, keybuf, key,
                   qualified>>

SampleSkip ==
    /\ pc = "sample"
    /\ ~TickDue(clock, last_time)
    /\ pc' = "getkey"
    /\ UNCHANGED <<iface, host_ips, sock, frame, last_read, stats, last_time,
                   clock, screen, keybuf, key, hist>>

----------------------------------------------------------------------------
(* The loop: the quit key, lines 137-143. *)

\* stdscr.getkey() returns the oldest key typed.
GetKey ==
    /\ pc = "getkey"
    /\ keybuf # << >>
    /\ key' = Head(keybuf)
    /\ keybuf' = Tail(keybuf)
    /\ pc' = "quit"
    /\ UNCHANGED <<iface, host_ips, sock, frame, last_read, stats, last_time,
                   clock, screen, hist>>

\* No key within the 200 ms of stdscr.timeout(200): curses.error, caught.
GetKeyNone ==
    /\ pc = "getkey"
    /\ keybuf = << >>
    /\ key' = NoKey
    /\ pc' = "recv"
    /\ UNCHANGED <<iface, host_ips, sock, frame, last_read, stats, last_time,
                   clock, screen, keybuf, hist>>

IsQuit(k) == lower(k) = "q"

\* break: main returns.  Nothing closes the socket; whether the interpreter
\* has finalized the socket object by then is not fixed by the language.
Quit ==
    /\ pc = "quit"
    /\ IsQuit(key)
    /\ pc' = "returned"
    /\ sock' \in {"open", "closed"}
    /\ UNCHANGED <<iface, host_ips, frame, last_read, stats, last_time,
                   clock, screen, keybuf, key, hist>>

\* Any other key: the loop goes on.  The key is dead from here.
NoQuit ==
    /\ pc = "quit"
    /\ ~IsQuit(key)
    /\ key' = NoKey
    /\ pc' = "recv"
    /\ UNCHANGED <<iface, host_ips, sock, frame, last_read, stats, last_time,
                   clock, screen, keybuf, hist>>

----------------------------------------------------------------------------
(* The environment: time passes and the user types while the program waits. *)

Waiting == pc \in {"recv", "getkey"}

Advance ==
    /\ Waiting
    /\ clock < MaxTime
    /\ clock' = clock + 1
    /\ UNCHANGED <<pc, iface, host_ips, sock, frame, last_read, stats, last_time,
                   screen, keybuf, key, hist>>

PressKey ==
    /\ Waiting
    /\ keybuf = << >>
    /\ \E k \in Keys : keybuf' = Append(keybuf, k)
    /\ UNCHANGED <<pc, iface, host_ips, sock, frame, last_read, stats, last_time,
                   clock, screen, key, hist>>

----------------------------------------------------------------------------

Startup ==
    \/ SelectNone \/ SelectIface
    \/ ResolveOK \/ ResolveFail
    \/ SocketOK \/ SocketFail
    \/ BindOK \/ BindFail
    \/ InitStats

Next ==
    \/ Startup
    \/ RecvFrame \/ RecvTimeout \/ RecvError \/ RecvInterrupt
    \/ EthStructError
    \/ SkipNotIPv4 \/ SkipIpTruncated \/ SkipNotUDP \/ SkipUdpTruncated
    \/ SkipOutsidePorts
    \/ NotRtp \/ CountInbound \/ CountOutbound
    \/ SampleTick \/ SampleSkip
    \/ GetKey \/ GetKeyNone \/ Quit \/ NoQuit
    \/ Advance \/ PressKey

Spec == Init /\ [][Next]_vars

----------------------------------------------------------------------------
(* The program on a link that carries only RTP-port UDP traffic, up to the  *)
(* counts of the end-to-end scenario: 5 inbound and 3 outbound packets.     *)

ScenarioFrames ==
    { Rtp(HostAddr), Rtp(OtherAddr),
      MkFrame(ETH_IPV4, 69, PROTO_UDP, HostAddr, 20000, 20002, Payload(64, 12)),
      MkFrame(ETH_IPV4, 69, PROTO_UDP, HostAddr, 9999, 65001, Payload(128, 12)) }

RecvScenario == RecvFrom(ScenarioFrames, ScenarioRx, ScenarioTx)

NextScenario ==
    \/ SelectIface \/ ResolveOK \/ SocketOK \/ BindOK \/ InitStats
    \/ RecvScenario \/ RecvTimeout
    \/ SkipOutsidePorts
    \/ NotRtp \/ CountInbound \/ CountOutbound
    \/ SampleTick \/ SampleSkip
    \/ GetKey \/ GetKeyNone \/ Quit \/ NoQuit
    \/ Advance \/ PressKey

SpecScenario == Init /\ [][NextScenario]_vars

----------------------------------------------------------------------------
(* The program on a silent link: no read ever returns a frame.  The program *)
(* keeps running and time keeps passing.                                    *)

NextIdle ==
    \/ Startup
    \/ RecvTimeout \/ RecvError \/ RecvInterrupt
    \/ Advance \/ PressKey

SpecIdle == Init /\ [][NextIdle]_vars /\ WF_vars(NextIdle)

----------------------------------------------------------------------------
(* The program within its first second, on IPv4 UDP frames with whole       *)
(* headers: every pairing of ports at and around the ends of 10000..65000,  *)
(* payloads of 0, 11, 12 and 13 bytes, first payload bytes at and around    *)
(* the values whose top two bits are 10, and addresses of the host and of   *)
(* other machines, on a host with no, one or two addresses.                 *)

EdgePorts == { 9999, 10000, 65000, 65001 }
EdgeBytes == { 0, 63, 64, 127, 128, 191, 192, 255 }
EdgeLens == { 0, 11, 12, 13 }
AddrPairs ==
    { << OtherAddr, HostAddr >>, << HostAddr, OtherAddr >>,
      << OtherAddr, ThirdAddr >>, << HostAddr, SecondAddr >> }

DecodeFrames ==
    { MkFrameSrc(ETH_IPV4, 69, PROTO_UDP, a[1], a[2], sp, dp, Payload(b, n)) :
        a \in AddrPairs, sp \in EdgePorts, dp \in EdgePorts,
        b \in EdgeBytes, n \in EdgeLens }

DecodeHostSets == { << >>, << HostAddr >>, << HostAddr, SecondAddr >> }

ResolveDecode == ResolveTo(DecodeHostSets)

RecvDecode == RecvFrom(DecodeFrames, DecodeMax, DecodeMax)

NextDecode ==
    \/ SelectIface \/ ResolveDecode \/ SocketOK \/ BindOK \/ InitStats
    \/ RecvDecode
    \/ SkipOutsidePorts
    \/ NotRtp \/ CountInbound \/ CountOutbound
    \/ SampleSkip
    \/ GetKeyNone

SpecDecode == Init /\ [][NextDecode]_vars

----------------------------------------------------------------------------
(* The first sample after bursts of traffic.  The loop is at line 114 for   *)
(* the first time with a tick due or not, after rx inbound and tx outbound  *)
(* packets were recorded on a host with one address: counts below, at and   *)
(* above the 50 characters of a bar.                                        *)

Bursts == { 0, 1, 12, 49, 50, 51, 73 }

InitSample ==
    /\ pc = "sample"
    /\ iface \in Interfaces
    /\ host_ips = << HostAddr >>
    /\ sock = "open"
    /\ frame = << >>
    /\ last_read = "frame"
    /\ \E r \in Bursts, t \in Bursts :
          /\ stats = [rx |-> r, tx |-> t, last_rx |-> 0, last_tx |-> 0]
          /\ rec_rx = r
          /\ rec_tx = t
          /\ qualified = r + t
    /\ last_time = 0
    /\ clock \in 0..MaxTime
    /\ screen = Blank
    /\ keybuf = << >>
    /\ key = NoKey
    /\ sum_rx = 0
    /\ sum_tx = 0
    /\ tick_at = << >>

NextSample == SampleTick \/ SampleSkip \/ GetKeyNone

SpecSample == InitSample /\ [][NextSample]_vars

----------------------------------------------------------------------------
(* Steps of the program, told apart from the steps of the environment. *)

\* The program steps from inside the loop to the next frame read (also from
\* one read to the next) while no time passes and no key is typed.
LoopBack ==
    /\ pc \in Running
    /\ pc' = "recv"
    /\ clock' = clock
    /\ keybuf' = keybuf

\* A read that ended with BlockingIOError or another Exception.
FailedRead ==
    /\ pc = "recv"
    /\ last_read' \in {"timeout", "error"}
    /\ clock' = clock
    /\ keybuf' = keybuf

\* A step of lines 113-135 that rendered a snapshot.
Ticked == pc = "sample" /\ tick_at' # tick_at

\* The user's q (or Q) is waiting to be read, or has just been read.
QPending ==
    \/ (keybuf # << >> /\ Head(keybuf) \in {"q", "Q"})
    \/ (pc = "quit" /\ key \in {"q", "Q"})

----------------------------------------------------------------------------
(* C1 *)

CountersOrdered ==
    /\ stats.rx >= stats.last_rx
    /\ stats.tx >= stats.last_tx

\* C1: in every reachable state rx >= last_rx and tx >= last_tx, and no step
\* decreases rx or tx.
C1_CountersNeverDecrease ==
    [][ /\ CountersOrdered
        /\ CountersOrdered'
        /\ stats'.rx >= stats.rx
        /\ stats'.tx >= stats.tx ]_vars

\* A tick has been taken and packets of both directions were counted after it.
C1_Witness ==
    /\ stats.last_rx > 0
    /\ stats.rx > stats.last_rx
    /\ stats.last_tx > 0
    /\ stats.tx > stats.last_tx

----------------------------------------------------------------------------
(* C2 *)

\* Everything counted up to the last snapshot has been reported once, and
\* what was counted since is what the next snapshot will report.
ReportedOnce ==
    /\ sum_rx = stats.last_rx
    /\ sum_tx = stats.last_tx
    /\ rec_rx = stats.rx - stats.last_rx
    /\ rec_tx = stats.tx - stats.last_tx
    /\ screen # Blank => (screen.rx_diff >= 0 /\ screen.tx_diff >= 0)

\* C2: each rendered delta is the number of packets counted since the
\* previous rendered snapshot, no delta is negative, the deltas rendered so
\* far add up to last_rx and last_tx; 5 inbound and 3 outbound packets followed
\* by the first tick render rx = 5, tx = 3, +5/s and +3/s.
C2_EachPacketReportedOnce ==
    [][ /\ ReportedOnce
        /\ ReportedOnce'
        /\ Ticked => /\ screen'.rx_diff = rec_rx
                     /\ screen'.tx_diff = rec_tx
                     /\ sum_rx' = stats'.last_rx
                     /\ rec_rx' = 0 /\ rec_tx' = 0
        /\ (Ticked /\ tick_at = << >> /\ rec_rx = 5 /\ rec_tx = 3) =>
                     /\ screen'.rx = 5 /\ screen'.tx = 3
                     /\ screen'.rx_diff = 5 /\ screen'.tx_diff = 3 ]_vars

\* The scenario: the first snapshot, after 5 inbound and 3 outbound packets.
C2_Witness ==
    /\ screen # Blank
    /\ screen.rx = 5 /\ screen.tx = 3
    /\ screen.rx_diff = 5 /\ screen.tx_diff = 3
    /\ sum_rx = 5 /\ sum_tx = 3

----------------------------------------------------------------------------
(* C3 *)

\* C3: on a silent link, once more than one interval has passed since the
\* last tick, a loop that keeps running eventually renders a snapshot with
\* +0/s and +0/s.
C3_TicksWithoutTraffic ==
    (pc = "recv" /\ TickDue(clock, last_time))
        ~> \/ (screen # Blank /\ screen.rx_diff = 0 /\ screen.tx_diff = 0)
           \/ pc \notin Running

----------------------------------------------------------------------------
(* C4 *)

\* C4: every iteration, whatever its read and its frame, takes the Sample
\* step and then the key poll before the next read: the next read is reached
\* from the key poll only, and the key poll from the Sample step only.
C4_SampleAndPollEveryIteration ==
    [][ /\ LoopBack => pc \in {"getkey", "quit"}
        /\ (pc' = "getkey" /\ pc # "getkey") => pc = "sample" ]_vars

----------------------------------------------------------------------------
(* C5 *)

\* C5: once q is pressed, the read the loop may be waiting in is the last
\* one: no further read is begun before the loop terminates.
C5_QuitWithinOneRead ==
    [][ ~(QPending /\ LoopBack) ]_vars

----------------------------------------------------------------------------
(* C6 *)

\* C6: on every path that leaves the loop (quit, error, signal) the socket
\* is no longer open.
C6_SocketReleased ==
    [][ (pc \in Running /\ pc' \in {"returned", "aborted"}) => sock' # "open" ]_vars

----------------------------------------------------------------------------
(* C7 *)

\* C7: a frame shorter than 14 bytes is skipped: nothing fails, the counters
\* are unchanged and the loop goes on.
C7_ShortFrameSkipped ==
    [][ (pc = "decode" /\ Len(frame) < 14) =>
            (pc' \in Running /\ stats' = stats) ]_vars

----------------------------------------------------------------------------
(* C8 *)

\* The frames C8 is about, read off the bytes of the frame.
OutOfScope(f) ==
    /\ Len(f) >= 14
    /\ \/ f[13] * 256 + f[14] # 2048
       \/ Len(f) < 34
       \/ f[24] # 17
       \/ Len(f) < 14 + 4 * (f[15] % 16) + 8

\* C8: a frame of 14 bytes or more that is not IPv4, or not UDP, or whose
\* IPv4 or UDP header is cut short, is skipped: the loop goes straight to the
\* next read, nothing is counted and nothing is rendered.
C8_OutOfScopeFrameSkipped ==
    [][ (pc = "decode" /\ OutOfScope(frame)) =>
            (pc' = "recv" /\ stats' = stats /\ screen' = screen
             /\ rec_rx' = rec_rx /\ rec_tx' = rec_tx) ]_vars

\* A frame with a truncated UDP header behind IPv4 options is being decoded
\* after packets were counted.
C8_Witness ==
    /\ pc = "decode"
    /\ OutOfScope(frame)
    /\ Len(frame) = 45
    /\ stats.rx > 0 /\ stats.tx > 0

----------------------------------------------------------------------------
(* C9 *)

\* C9: a read that ends in a timeout or an error leaves the loop at the
\* read, with rx, tx, last_rx and last_tx as they were.
C9_FailedReadIsNoOp ==
    [][ FailedRead => (pc' = "recv" /\ stats' = stats /\ sock' = sock) ]_vars

\* The loop is at the read again after a read error, with packets counted.
C9_Witness ==
    /\ pc = "recv"
    /\ last_read = "error"
    /\ stats.rx > 0
    /\ stats.last_tx > 0

----------------------------------------------------------------------------
(* C10 *)

\* C10: a key poll that returns q or Q ends the loop in that iteration; one
\* that returns another key, or no key, leaves the loop running with the
\* counters unchanged.
C10_QuitKey ==
    [][ /\ (pc = "getkey" /\ pc' # pc /\ keybuf = << >>) =>
                (pc' = "recv" /\ stats' = stats)
        /\ (pc = "getkey" /\ pc' # pc /\ keybuf # << >>) =>
                (pc' = "quit" /\ key' = Head(keybuf) /\ stats' = stats)
        /\ (pc = "quit" /\ key \in {"q", "Q"}) =>
                (pc' = "returned" /\ stats' = stats)
        /\ (pc = "quit" /\ key \notin {"q", "Q"}) =>
                (pc' = "recv" /\ stats' = stats) ]_vars

\* The loop has ended on an upper-case Q.
C10_Witness ==
    /\ pc = "returned"
    /\ key = "Q"

----------------------------------------------------------------------------
(* C11 *)

\* An IPv4 frame carrying UDP with both headers whole, read off its bytes.
InScope(f) == Len(f) >= 14 /\ ~OutOfScope(f)

\* The UDP header of such a frame starts after the IPv4 header and options;
\* the port at byte k of that header (0: source, 2: destination).
PortOf(f, k) ==
    LET o == 14 + 4 * (f[15] % 16) IN f[o + k + 1] * 256 + f[o + k + 2]

InWindow(p) == p >= 10000 /\ p <= 65000

\* The bytes after the UDP header.
PayloadOf(f) ==
    LET o == 14 + 4 * (f[15] % 16) + 8 IN [i \in 1..(Len(f) - o) |-> f[o + i]]

\* C11: an IPv4 UDP frame with both ports outside 10000..65000 is ignored,
\* whatever its payload: rx and tx stay and the loop goes back to the read.
\* With a port inside, 10000 and 65000 included, the frame goes on past the
\* port test of line 103.
C11_PortWindow ==
    [][ (pc = "decode" /\ InScope(frame)) =>
            IF ~InWindow(PortOf(frame, 0)) /\ ~InWindow(PortOf(frame, 2))
            THEN pc' = "recv" /\ stats' = stats
            ELSE pc' = "sample" ]_vars

\* A frame from port 65001 to port 10000 is being decoded.
C11_Witness ==
    /\ pc = "decode"
    /\ InScope(frame)
    /\ PortOf(frame, 0) = 65001
    /\ PortOf(frame, 2) = 10000
    /\ Len(PayloadOf(frame)) = 12

----------------------------------------------------------------------------
(* C12 *)

\* An IPv4 UDP frame with a port within 10000..65000.
PastPortTest(f) ==
    InScope(f) /\ (InWindow(PortOf(f, 0)) \/ InWindow(PortOf(f, 2)))

\* A payload of 12 bytes or more whose first byte has 10 as its top two bits.
RtpLike(p) == Len(p) >= 12 /\ p[1] >= 128 /\ p[1] <= 191

\* The destination and source addresses in the IPv4 header, as four bytes.
DstBytes(f) == << f[31], f[32], f[33], f[34] >>
SrcBytes(f) == << f[27], f[28], f[29], f[30] >>

HostHas(a) == \E i \in 1..Len(host_ips) : host_ips[i] = a

\* C12: a frame that passes the port test and the RTP heuristic is counted
\* as inbound (rx) exactly when its destination address is one of the host's
\* addresses, and as outbound (tx) otherwise: also when the host has no
\* address, and when neither its source nor its destination is the host's.
C12_DirectionByDestination ==
    [][ (pc = "decode" /\ PastPortTest(frame) /\ RtpLike(PayloadOf(frame))) =>
            IF HostHas(DstBytes(frame))
            THEN stats' = [stats EXCEPT !.rx = stats.rx + 1]
            ELSE stats' = [stats EXCEPT !.tx = stats.tx + 1] ]_vars

\* A qualifying frame between two other machines is being decoded on a host
\* with two addresses, after a frame to the host's second address was
\* counted.
C12_Witness ==
    /\ pc = "decode"
    /\ PastPortTest(frame) /\ RtpLike(PayloadOf(frame))
    /\ Len(host_ips) = 2
    /\ ~HostHas(DstBytes(frame)) /\ ~HostHas(SrcBytes(frame))
    /\ stats.rx = 1

----------------------------------------------------------------------------
(* C13 *)

\* The top two bits of a byte, the higher one first.
TopTwoBits(b) == << (b \div 128) % 2, (b \div 64) % 2 >>

\* C13: the RTP heuristic holds exactly for payloads of 12 bytes or more
\* whose first byte has the top two bits 1 0: a frame past the port test is
\* counted in that case, and in every other case (a shorter payload, other
\* top bits) nothing is counted and the loop body goes on.
C13_RtpHeuristic ==
    [][ (pc = "decode" /\ PastPortTest(frame)) =>
            LET p == PayloadOf(frame)
            IN IF Len(p) >= 12 /\ TopTwoBits(p[1]) = << 1, 0 >>
               THEN stats'.rx + stats'.tx = stats.rx + stats.tx + 1
               ELSE stats' = stats /\ pc' = "sample" ]_vars

\* An 11-byte payload that starts with the bits 10 is being decoded.
C13_Witness ==
    /\ pc = "decode"
    /\ PastPortTest(frame)
    /\ Len(PayloadOf(frame)) = 11
    /\ TopTwoBits(PayloadOf(frame)[1]) = << 1, 0 >>

----------------------------------------------------------------------------
(* C14 *)

\* C14: recording an inbound packet adds exactly 1 to rx and leaves tx,
\* last_rx, last_tx and the time of the last tick as they were; recording an
\* outbound packet does the same with tx; a frame that is not counted
\* changes none of them.  No step of the loop other than the sample changes
\* last_rx, last_tx or the time of the last tick, however many packets are
\* recorded in between.
C14_RecordTouchesOneCounter ==
    [][ /\ (pc = "decode" /\ PastPortTest(frame) /\ RtpLike(PayloadOf(frame))
                /\ HostHas(DstBytes(frame))) =>
              (/\ stats'.rx = stats.rx + 1 /\ stats'.tx = stats.tx
               /\ stats'.last_rx = stats.last_rx /\ stats'.last_tx = stats.last_tx
               /\ last_time' = last_time)
        /\ (pc = "decode" /\ PastPortTest(frame) /\ RtpLike(PayloadOf(frame))
                /\ ~HostHas(DstBytes(frame))) =>
              (/\ stats'.tx = stats.tx + 1 /\ stats'.rx = stats.rx
               /\ stats'.last_rx = stats.last_rx /\ stats'.last_tx = stats.last_tx
               /\ last_time' = last_time)
        /\ (pc = "decode"
                /\ ~(PastPortTest(frame) /\ RtpLike(PayloadOf(frame)))) =>
              (stats' = stats /\ last_time' = last_time)
        /\ (pc \in Running /\ pc # "sample") =>
              (/\ stats'.last_rx = stats.last_rx /\ stats'.last_tx = stats.last_tx
               /\ last_time' = last_time) ]_vars

\* Two inbound packets and one outbound packet were recorded since the tick
\* that reported the first inbound packet.
C14_Witness ==
    /\ pc = "sample"
    /\ rec_rx = 2 /\ rec_tx = 1
    /\ stats.rx = 3 /\ stats.tx = 1
    /\ stats.last_rx = 1 /\ stats.last_tx = 0

----------------------------------------------------------------------------
(* C15 *)

\* C15 as stated: after a tick at time T, the sample taken at T + 1 interval
\* yields a snapshot with the rx delta rx - last_rx, and sets last_rx to rx
\* and the time of the last tick to T + 1.
C15_TickAtOneInterval ==
    [][ (pc = "sample" /\ tick_at # << >> /\ last_time = tick_at[1]
            /\ clock = last_time + Interval) =>
            (/\ tick_at' = << clock >>
             /\ screen'.rx_diff = stats.rx - stats.last_rx
             /\ stats'.last_rx = stats.rx
             /\ last_time' = clock) ]_vars

\* C15, amended: the sample taken more than one interval after the last tick
\* yields a snapshot with the deltas rx - last_rx and tx - last_tx, sets
\* last_rx to rx, last_tx to tx and the time of the last tick to the time of
\* the sample, and leaves rx and tx; the sample taken exactly one interval
\* after the last tick yields nothing and leaves all of them.
C15_TickAfterOneInterval ==
    [][ /\ (pc = "sample" /\ clock - last_time > Interval) =>
              (/\ tick_at' = << clock >>
               /\ screen'.rx_diff = stats.rx - stats.last_rx
               /\ screen'.tx_diff = stats.tx - stats.last_tx
               /\ stats'.last_rx = stats.rx /\ stats'.last_tx = stats.tx
               /\ stats'.rx = stats.rx /\ stats'.tx = stats.tx
               /\ last_time' = clock)
        /\ (pc = "sample" /\ clock - last_time = Interval) =>
              (/\ tick_at' = tick_at /\ screen' = screen
               /\ stats' = stats /\ last_time' = last_time) ]_vars

\* A second snapshot was just rendered, two seconds after the first: the
\* first reported one inbound packet, the second the two that followed.
C15_Witness ==
    /\ pc = "getkey"
    /\ tick_at = << clock >> /\ last_time = clock
    /\ clock = 4
    /\ sum_rx = 3 /\ screen.rx_diff = 2
    /\ stats.rx = 3 /\ stats.last_rx = 3

----------------------------------------------------------------------------
(* C16 *)

\* C16: a sample taken before one interval has passed since the last tick
\* yields no snapshot and renders nothing, and leaves last_rx, last_tx and
\* the time of the last tick as they were; any two snapshots rendered one
\* after the other are more than one interval apart.
C16_NoTickBeforeInterval ==
    [][ /\ (pc = "sample" /\ clock - last_time < Interval) =>
              (/\ pc' = "getkey"
               /\ screen' = screen /\ tick_at' = tick_at
               /\ stats' = stats /\ last_time' = last_time)
        /\ (tick_at # << >> /\ tick_at' # tick_at) =>
              tick_at'[1] - tick_at[1] > Interval ]_vars

\* A packet was recorded in the second in which the second snapshot was
\* rendered, and the sample that follows the record is about to run.
C16_Witness ==
    /\ pc = "sample"
    /\ tick_at = << clock >> /\ last_time = clock
    /\ sum_rx > screen.rx_diff
    /\ rec_rx = 1

----------------------------------------------------------------------------
(* C17 *)

\* C17: in every snapshot each bar has exactly min(delta, 50) characters,
\* all of them #, while the counts and the deltas shown as numbers are the
\* values themselves, not limited to 50.
C17_BarsClamped ==
    [][ Ticked =>
          LET rxd == stats.rx - stats.last_rx
              txd == stats.tx - stats.last_tx
          IN /\ Len(screen'.rx_bar) = (IF rxd > 50 THEN 50 ELSE rxd)
             /\ Len(screen'.tx_bar) = (IF txd > 50 THEN 50 ELSE txd)
             /\ \A i \in 1..Len(screen'.rx_bar) : screen'.rx_bar[i] = "#"
             /\ \A i \in 1..Len(screen'.tx_bar) : screen'.tx_bar[i] = "#"
             /\ screen'.rx_diff = rxd /\ screen'.tx_diff = txd
             /\ screen'.rx = stats.rx /\ screen'.tx = stats.tx ]_vars

\* A snapshot shows 73 inbound packets with a bar of 50 and 12 outbound
\* packets with a bar of 12.
C17_Witness ==
    /\ pc = "getkey"
    /\ tick_at # << >>
    /\ screen.rx_diff = 73 /\ Len(screen.rx_bar) = 50
    /\ screen.tx_diff = 12 /\ Len(screen.tx_bar) = 12

----------------------------------------------------------------------------
(* C18 *)

\* C18: in every snapshot the direction shown is <-- (inbound) exactly when
\* the rx delta is greater than the tx delta, and --> (outbound) otherwise:
\* also when the two are equal, 0 and 0 included.
C18_DirectionIndicator ==
    [][ Ticked =>
          LET rxd == stats.rx - stats.last_rx
              txd == stats.tx - stats.last_tx
          IN /\ rxd > txd => screen'.direction = "<--"
             /\ rxd <= txd => screen'.direction = "-->" ]_vars

\* A snapshot without traffic shows 0 and 0 and the outbound arrow.
C18_Witness ==
    /\ pc = "getkey"
    /\ tick_at # << >>
    /\ screen.rx_diff = 0 /\ screen.tx_diff = 0
    /\ screen.direction = "-->"

----------------------------------------------------------------------------
(* C19 *)

\* The steps before the loop, in the order of the code, each with the places
\* it can lead to.
StartupSteps ==
    [ select |-> {"resolve", "exited"}, resolve |-> {"socket", "aborted"},
      socket |-> {"bind", "aborted"}, bind |-> {"init", "aborted"},
      init |-> {"recv"} ]

\* C19: the loop runs only with an interface chosen and an opened socket,
\* and is entered only past the bind; until then no frame is read and no
\* counter changes; each startup step either goes on to the next one or
\* ends the program (no interface chosen, or a failure of the address
\* lookup, of the socket call or of the bind), and once the program has
\* ended that way nothing is done any more: nothing is retried.
C19_StartupGuards ==
    /\ [](pc \in Running =>
              (iface \in Interfaces /\ iface # "" /\ sock = "open"))
    /\ [][ /\ (pc' \in Running /\ pc \notin Running) => pc = "init"
           /\ pc \in DOMAIN StartupSteps =>
                 (/\ pc' \in StartupSteps[pc]
                  /\ frame' = << >> /\ last_read' = "none"
                  /\ stats' = [rx |-> 0, tx |-> 0, last_rx |-> 0, last_tx |-> 0]
                  /\ qualified' = 0 /\ screen' = Blank)
           /\ pc \notin {"exited", "aborted"} ]_vars

\* The socket call or the address lookup has failed.
C19_Witness ==
    /\ pc = "aborted"
    /\ last_read = "none"
    /\ iface \in Interfaces
    /\ sock = "none"

----------------------------------------------------------------------------
(* C20 *)

\* The frame read and not yet decoded, when it is one that will be counted.
PendingCount == IF pc = "decode" /\ Qualifies(frame) THEN 1 ELSE 0

\* C20: rx + tx is the number of frames received so far that were IPv4 UDP
\* frames with a port within 10000..65000 and an RTP-like payload (the one
\* being decoded not yet included); no step changes rx + tx by more than 1,
\* and no step changes both rx and tx.
C20_TotalIsQualifyingFrames ==
    /\ [](stats.rx + stats.tx + PendingCount = qualified)
    /\ [][ /\ stats'.rx + stats'.tx - (stats.rx + stats.tx) \in {0, 1}
           /\ ~(stats'.rx # stats.rx /\ stats'.tx # stats.tx) ]_vars

\* Two inbound and two outbound packets were counted and a fifth qualifying
\* frame has been read.
C20_Witness ==
    /\ pc = "decode"
    /\ Qualifies(frame)
    /\ qualified = 5
    /\ stats.rx = 2 /\ stats.tx = 2

====
